---- MODULE Spec2Model ----
(***************************************************************************)
(* A model of yoink, the bulk file retriever for the NRAO archive.         *)
(*                                                                         *)
(* The orchestrator (yoink/commands.py) resolves a locations report        *)
(* (yoink/locations_report.py), the parallel fetcher                       *)
(* (yoink/product_fetchers.py) splits it into buckets and runs one thread  *)
(* per bucket, each thread retrieves its files one after another           *)
(* (yoink/file_retrievers.py) through the Retryer (yoink/utilities.py).    *)
(*                                                                         *)
(* Logging is left out: the logger arguments that the constructors pass    *)
(* to each other carry no state that decides a retrieval.                  *)
(* The storage servers, the location service and the file system are the   *)
(* environment: every answer they can give is a nondeterministic choice.   *)
(***************************************************************************)
EXTENDS Integers, Sequences, FiniteSets, TLC

(***************************************************************************)
(* Bounds of the model and constants of the program.                       *)
(***************************************************************************)
MaxFiles == 2

MaxThreads == 2

MaxSize == 2

\* the destinations an earlier run can have left unfetched
MaxAbsent == 1

\* the largest max_tries a Retryer of its own is made with
MaxTriesArg == 3

MAX_TRIES == 10

\* the umask of the process when it starts (0o022)
UMASK0 == 2 * 8 + 2

\* python's None
Null == "None"

HTTP_OK == 200

HTTP_BAD_REQUEST == 400

HTTP_NOT_FOUND == 404

\* RetrievalMode
STREAM == "stream"

COPY == "copy"

\* Cluster.DSOC.value
DSOC == "DSOC"

NAASC == "NAASC"

(***************************************************************************)
(* Small helpers on sequences.                                             *)
(***************************************************************************)
Range(s) == {s[i] : i \in DOMAIN s}

RECURSIVE SelectSeqIdx(_, _)
\* the subsequence of s at the (ascending) positions in idx
SelectSeqIdx(s, idx) ==
    IF idx = {} THEN <<>>
    ELSE LET m == CHOOSE i \in idx : \A j \in idx : j <= i
         IN  Append(SelectSeqIdx(s, idx \ {m}), s[m])

\* str.endswith: path and suffix are sequences of characters
endswith(path, suffix) ==
    /\ Len(path) >= Len(suffix)
    /\ SubSeq(path, Len(path) - Len(suffix) + 1, Len(path)) = suffix

XML == <<".", "x", "m", "l">>

BIN == <<".", "b", "i", "n">>

TAR == <<".", "t", "a", "r">>

(***************************************************************************)
(* The archive: the file specs a locations report can list.  Every entry   *)
(* has its own destination (subdirectory, relative_path).                  *)
(***************************************************************************)
FileSpec(id, sub, path, size, host, loc, clu) ==
    [ngas_file_id |-> id, subdirectory |-> sub, relative_path |-> path,
     size |-> size,
     server |-> [server |-> host, location |-> loc, cluster |-> clu]]

Catalogue ==
    << FileSpec("f1", "s1", <<"a">> \o XML, MaxSize, "h1", DSOC, DSOC),
       FileSpec("f2", "s1", <<"b">> \o BIN, 1, "h1", DSOC, DSOC),
       FileSpec("f3", Null, <<"c">> \o TAR, 1, "h2", NAASC, NAASC),
       FileSpec("f4", "s2", <<"d">> \o XML, 0, "h2", NAASC, NAASC),
       FileSpec("f5", "s2", <<"e">> \o TAR, MaxSize, "h1", NAASC, DSOC) >>

\* two more files of the archive, for runs with more buckets than the pool has
\* threads
Extra ==
    << FileSpec("f6", "s1", <<"g">> \o BIN, 1, "h2", NAASC, NAASC),
       FileSpec("f7", Null, <<"h">> \o XML, 1, "h1", DSOC, DSOC) >>

Hosts == {"h1", "h2"}

Subdirs == {"s1", "s2"}

\* the output directory itself
Root == "output_dir"

Dirs == {Root} \cup Subdirs

\* NGASFileRetriever._get_destination: output_dir / subdirectory? / relative_path
\* (a destination is named by its directory and its file name)
_get_destination(file_spec) ==
    [dir  |-> IF file_spec.subdirectory = Null THEN Root
              ELSE file_spec.subdirectory,
     name |-> file_spec.relative_path]

Dests == {_get_destination(f) : f \in Range(Catalogue \o Extra)}

\* os.path.dirname(destination)
dirname(destination) == destination.dir

(***************************************************************************)
(* yoink/locations_report.py: the locations report.                        *)
(***************************************************************************)
\* a filter that keeps the .xml files only
_filter_sdm_only_xml(sdm_only, files) ==
    IF sdm_only
    THEN SelectSeq(files, LAMBDA file_spec :
                     endswith(file_spec.relative_path, XML))
    ELSE files

\* LocationsReport._filter_sdm_only, called from _get_files_report
_filter_sdm_only(sdm_only, files) ==
    IF sdm_only
    THEN SelectSeq(files, LAMBDA file_spec :
                     \/ endswith(file_spec.relative_path, BIN)
                     \/ endswith(file_spec.relative_path, XML))
    ELSE files

\* an annotation that compares the location only
retrieve_method_by_location(server, exec_site) ==
    IF server.location = exec_site THEN COPY ELSE STREAM

\* the retrieve method _add_retrieve_method_field gives one server
retrieve_method_of(server, exec_site) ==
    IF server.cluster = DSOC /\ server.location = exec_site
    THEN COPY ELSE STREAM

\* LocationsReport._add_retrieve_method_field
_add_retrieve_method_field(exec_site, files) ==
    [i \in DOMAIN files |->
        [ngas_file_id |-> files[i].ngas_file_id,
         subdirectory |-> files[i].subdirectory,
         relative_path |-> files[i].relative_path,
         size |-> files[i].size,
         server |-> [server |-> files[i].server.server,
                     location |-> files[i].server.location,
                     cluster |-> files[i].server.cluster,
                     retrieve_method |->
                         retrieve_method_of(files[i].server, exec_site)]]]

\* new_f = copy.deepcopy(file_spec); del new_f['server']
WithoutServer(file_spec) ==
    [ngas_file_id |-> file_spec.ngas_file_id,
     subdirectory |-> file_spec.subdirectory,
     relative_path |-> file_spec.relative_path,
     size |-> file_spec.size]

\* the positions of the files report that name a host for the first time,
\* in listing order: the insertion order of the servers report's keys
FirstOfHost(files) ==
    {i \in DOMAIN files :
        \A j \in 1..(i - 1) : files[j].server.server /= files[i].server.server}

\* a grouping that assigns the list of a host anew for every file, so that
\* only the last file of a host is left
_get_servers_report_last_only(files) ==
    LET firsts == SelectSeqIdx(files, FirstOfHost(files))
    IN  [n \in DOMAIN firsts |->
            [server |-> firsts[n].server.server,
             location |-> firsts[n].server.location,
             cluster |-> firsts[n].server.cluster,
             retrieve_method |-> firsts[n].server.retrieve_method,
             files |-> LET mine == SelectSeq(files, LAMBDA f :
                                     f.server.server = firsts[n].server.server)
                       IN  <<WithoutServer(mine[Len(mine)])>>]]

\* LocationsReport._get_servers_report: the files grouped by server host; a
\* host's location, cluster and retrieve method are those of its first file
_get_servers_report(files) ==
    LET firsts == SelectSeqIdx(files, FirstOfHost(files))
    IN  [n \in DOMAIN firsts |->
            [server |-> firsts[n].server.server,
             location |-> firsts[n].server.location,
             cluster |-> firsts[n].server.cluster,
             retrieve_method |-> firsts[n].server.retrieve_method,
             files |-> LET mine == SelectSeq(files, LAMBDA f :
                                     f.server.server = firsts[n].server.server)
                       IN  [k \in DOMAIN mine |-> WithoutServer(mine[k])]]]

(***************************************************************************)
(* yoink/product_fetchers.py: the plan.                                    *)
(***************************************************************************)
\* ParallelProductFetcher._count_files_expected
RECURSIVE _count_files_expected(_)
_count_files_expected(servers_report) ==
    IF servers_report = <<>> THEN 0
    ELSE Len(Head(servers_report).files)
         + _count_files_expected(Tail(servers_report))

\* a count that starts at 1
list_number_from_one(i, threads_per_host) == (i + 1) % threads_per_host

\* list_number = i % threads_per_host, i counted from 0
list_number(i, threads_per_host) == i % threads_per_host

\* a plan with a bucket of its own for every file
BucketsOfServerPerFile(entry, threads_per_host) ==
    [k \in DOMAIN entry.files |->
        [server |-> entry.server,
         retrieve_method |-> entry.retrieve_method,
         files |-> <<entry.files[k]>>]]

\* buckets made without copy.deepcopy: they share one list of files
BucketsOfServerShared(entry, threads_per_host) ==
    IF Len(entry.files) = 0 THEN <<>>
    ELSE [n \in 1..threads_per_host |->
             [server |-> entry.server,
              retrieve_method |-> entry.retrieve_method,
              files |-> entry.files]]

\* the buckets of one server: its files dealt round-robin to threads_per_host
\* buckets, the empty buckets trimmed out
BucketsOfServer(entry, threads_per_host) ==
    LET buckets ==
            [n \in 1..threads_per_host |->
                [server |-> entry.server,
                 retrieve_method |-> entry.retrieve_method,
                 files |-> SelectSeqIdx(entry.files,
                     {k \in DOMAIN entry.files :
                         list_number(k - 1, threads_per_host) = n - 1})]]
    IN  SelectSeq(buckets, LAMBDA bucket : Len(bucket.files) > 0)

\* ParallelProductFetcher._bucketize_files
RECURSIVE _bucketize_files(_, _)
_bucketize_files(servers_report, threads_per_host) ==
    IF servers_report = <<>> THEN <<>>
    ELSE BucketsOfServer(Head(servers_report), threads_per_host)
         \o _bucketize_files(Tail(servers_report), threads_per_host)

(***************************************************************************)
(* Errors (yoink/errors.py) and the exceptions python adds to them.        *)
(***************************************************************************)
NoErr == [kind |-> "none", attempt |-> 0]

\* an exception of class kind, raised during the attempt-th attempt of a
\* retrieval (0: outside the retry loop)
Err(kind, attempt) == [kind |-> kind, attempt |-> attempt]

\* errors.exception_to_error: the exit code of an exception class that the
\* switcher has an entry for
exception_to_error(kind) ==
    CASE kind = "NoProfileException" -> 1
      [] kind = "MissingSettingsException" -> 2
      [] kind = "LocationServiceTimeoutException" -> 3
      [] kind = "LocationServiceRedirectsException" -> 4
      [] kind = "LocationServiceErrorException" -> 5
      [] kind = "NoLocatorException" -> 6
      [] kind = "FileErrorException" -> 7
      [] kind = "FileExistsError" -> 12
      [] kind = "NGASServiceTimeoutException" -> 8
      [] kind = "NGASServiceRedirectsException" -> 9
      [] kind = "NGASServiceErrorException" -> 10
      [] kind = "SizeMismatchException" -> 11

\* the keys of the switcher of exception_to_error
SwitcherKeys ==
    {"NoProfileException", "MissingSettingsException",
     "LocationServiceTimeoutException", "LocationServiceRedirectsException",
     "LocationServiceErrorException", "NoLocatorException",
     "FileErrorException", "FileExistsError", "NGASServiceTimeoutException",
     "NGASServiceRedirectsException", "NGASServiceErrorException",
     "SizeMismatchException"}

\* Yoink._terminal_exception and errors.terminal_exception: sys.exit with the
\* code of the exception.  For a class without an entry exception_to_error
\* returns None, errorno.value raises AttributeError, nothing catches it and
\* the interpreter ends the process with status 1.
UNCAUGHT_EXIT == 1

_terminal_exception(kind) ==
    IF kind \in SwitcherKeys THEN exception_to_error(kind) ELSE UNCAUGHT_EXIT

(***************************************************************************)
(* yoink/file_retrievers.py: the two fetch primitives.                     *)
(*                                                                         *)
(* A response of a storage server: conn_ok is FALSE when the connection    *)
(* fails; status is the HTTP status; len is, for a streaming request, the  *)
(* number of bytes of the body, and for a copy request the size of the     *)
(* file the server's plugin put at the destination (NotDelivered: none).   *)
(* A file on disk is [exists, size].                                       *)
(***************************************************************************)
NotDelivered == 0 - 1

NoFile == [exists |-> FALSE, size |-> 0]

File(size) == [exists |-> TRUE, size |-> size]

\* the outcome of one call of a fetch primitive: what it returns or raises,
\* the HTTP requests it issued, whether it opened the destination for
\* writing, and the destination file afterwards
Outcome(result, requests, opened, file) ==
    [result |-> result, requests |-> requests, opened |-> opened, file |-> file]

\* a _copying_fetch that does not look at the status of the answer
_copying_fetch_unchecked(dry_run, file_spec, resp, before) ==
    IF dry_run THEN Outcome("True", 0, FALSE, before)
    ELSE IF ~resp.conn_ok
         THEN Outcome("ConnectionError", 1, FALSE, before)
    ELSE Outcome("True", 1, FALSE,
                 IF resp.len = NotDelivered THEN before ELSE File(resp.len))

\* NGASFileRetriever._copying_fetch
_copying_fetch(dry_run, file_spec, resp, before) ==
    IF dry_run THEN Outcome("True", 0, FALSE, before)
    ELSE IF ~resp.conn_ok
         THEN Outcome("ConnectionError", 1, FALSE, before)
    ELSE IF resp.status /= HTTP_OK
         THEN Outcome("NGASServiceErrorException", 1, FALSE, before)
    ELSE Outcome("True", 1, FALSE,
                 IF resp.len = NotDelivered THEN before ELSE File(resp.len))

\* a _streaming_fetch that leaves the size to the check after the retries
_streaming_fetch_unsized(dry_run, file_spec, resp, before) ==
    IF dry_run THEN Outcome("True", 0, FALSE, before)
    ELSE IF ~resp.conn_ok
         THEN Outcome("NGASServiceErrorException", 1, FALSE, before)
    ELSE Outcome(IF resp.status /= HTTP_OK
                 THEN "NGASServiceErrorException" ELSE "True",
                 1, TRUE, File(resp.len))

\* a _streaming_fetch without the test for a file of no bytes
_streaming_fetch_no_empty_test(dry_run, file_spec, resp, before) ==
    IF dry_run THEN Outcome("True", 0, FALSE, before)
    ELSE IF ~resp.conn_ok
         THEN Outcome("NGASServiceErrorException", 1, FALSE, before)
    ELSE LET actual_size == resp.len
             result ==
                 IF actual_size /= file_spec.size
                 THEN "SizeMismatchException"
                 ELSE IF resp.status /= HTTP_OK
                      THEN "NGASServiceErrorException"
                 ELSE "True"
         IN  Outcome(result, 1, TRUE, File(actual_size))

\* a _streaming_fetch that opens the destination for appending
_streaming_fetch_appending(dry_run, file_spec, resp, before) ==
    IF dry_run THEN Outcome("True", 0, FALSE, before)
    ELSE IF ~resp.conn_ok
         THEN Outcome("NGASServiceErrorException", 1, FALSE, before)
    ELSE LET actual_size == before.size + resp.len
             result ==
                 IF actual_size = 0 THEN "FileErrorException"
                 ELSE IF actual_size /= file_spec.size
                      THEN "SizeMismatchException"
                 ELSE IF resp.status /= HTTP_OK
                      THEN "NGASServiceErrorException"
                 ELSE "True"
         IN  Outcome(result, 1, TRUE, File(actual_size))

\* NGASFileRetriever._streaming_fetch
_streaming_fetch(dry_run, file_spec, resp, before) ==
    IF dry_run THEN Outcome("True", 0, FALSE, before)
    ELSE IF ~resp.conn_ok
         THEN Outcome("NGASServiceErrorException", 1, FALSE, before)
    ELSE LET actual_size == resp.len
             result ==
                 IF actual_size = 0 THEN "FileErrorException"
                 ELSE IF actual_size /= file_spec.size
                      THEN "SizeMismatchException"
                 ELSE IF resp.status /= HTTP_OK
                      THEN "NGASServiceErrorException"
                 ELSE "True"
         IN  Outcome(result, 1, TRUE, File(actual_size))

\* the status code in the NGASServiceErrorException that a fetch primitive
\* raises for an answer of the server (the one raised for a connection that
\* failed holds a text only); before: the status code last carried
status_code(result, resp, before) ==
    IF result = "NGASServiceErrorException" /\ resp.conn_ok
    THEN resp.status ELSE before

\* func = self._copying_fetch if retrieve_method == COPY else
\* self._streaming_fetch
func(retrieve_method, dry_run, file_spec, resp, before) ==
    IF retrieve_method = COPY
    THEN _copying_fetch(dry_run, file_spec, resp, before)
    ELSE _streaming_fetch(dry_run, file_spec, resp, before)

\* a preflight that reads the force flag the wrong way round
PreflightForceInverted(exists, force_overwrite, dry_run) ==
    exists /\ force_overwrite /\ ~dry_run

\* a preflight that does not look at the force flag
PreflightIgnoresForce(exists, force_overwrite, dry_run) ==
    exists /\ ~dry_run

\* NGASFileRetriever.retrieve, the overwrite preflight: whether it raises
\* FileExistsError
PreflightRaises(exists, force_overwrite, dry_run) ==
    exists /\ ~force_overwrite /\ ~dry_run

\* a _make_basedir that does not ask whether the run is a dry run
MakesBasedirAlways(dry_run) == TRUE

\* NGASFileRetriever._make_basedir: whether the call does anything
MakesBasedir(dry_run) == ~dry_run

\* a _make_basedir without the writability check
BasedirNeverChecked(dir_state) == FALSE

\* NGASFileRetriever._make_basedir: whether the writability check raises
\* FileErrorException (os.path.isdir(basedir) and not os.access(.., W_OK))
BasedirNotWritable(dir_state) == dir_state = "ro"

\* a _check_result that only asks whether the file is there
_check_result_exists_only(dry_run, file_spec, file) ==
    IF dry_run THEN "none"
    ELSE IF ~file.exists THEN "NGASServiceErrorException"
    ELSE "none"

\* NGASFileRetriever._check_result: the exception it raises, "none" when the
\* file passes (always in a dry run)
_check_result(dry_run, file_spec, file) ==
    IF dry_run THEN "none"
    ELSE IF ~file.exists THEN "NGASServiceErrorException"
    ELSE IF file_spec.size /= file.size THEN "SizeMismatchException"
    ELSE "none"

(***************************************************************************)
(* yoink/utilities.py: the Retryer.                                        *)
(***************************************************************************)
\* a loop that forgets to count its tries
CountTryStuck(num_tries) == num_tries

\* self.num_tries += 1
CountTry(num_tries) == num_tries + 1

\* a comparison that is off by one
TriesLeftInclusive(num_tries, max_tries) == num_tries <= max_tries

\* if self.num_tries < self.max_tries: whether a failed attempt is followed by
\* a sleep and another attempt
TriesLeft(num_tries, max_tries) == num_tries < max_tries

\* a loop test that does not look at complete
RetryLoopCondNoComplete(num_tries, max_tries, complete) ==
    num_tries < max_tries

\* the condition of the while loop of Retryer.retry
RetryLoopCond(num_tries, max_tries, complete) ==
    num_tries < max_tries /\ ~complete

\* an except clause that also catches FileErrorException
RetriableWithFileError(kind) ==
    kind \in {"NGASServiceErrorException", "SizeMismatchException",
              "FileErrorException"}

\* except (NGASServiceErrorException, SizeMismatchException)
Retriable(kind) ==
    kind \in {"NGASServiceErrorException", "SizeMismatchException"}

\* a Retryer that raises its own NGASServiceErrorException('FAILURE after ..')
\* instead of the error it caught
RaisedGeneric(exc) == Err("NGASServiceErrorException", exc.attempt)

\* the error Retryer.retry raises once the tries are used up: the one caught
\* in this iteration
RaisedOnExhaustion(exc) == exc

\* the body of the loop of Retryer.retry after func returned or raised result
\* in attempt num_tries: what the loop does next ("loop": go to the loop test,
\* "sleep": sleep and go to the loop test, "raise": leave retry with exc)
RetryBody(num_tries, max_tries, result) ==
    IF result = "True"
    THEN [next |-> "loop", complete |-> TRUE, exc |-> NoErr]
    ELSE IF result = "False"
    THEN IF TriesLeft(num_tries, max_tries)
         \* the log call names exc, which is not bound here
         THEN [next |-> "raise", complete |-> FALSE,
               exc |-> Err("UnboundLocalError", num_tries)]
         \* raised inside the try, caught by the except clause below it
         ELSE [next |-> "raise", complete |-> FALSE,
               exc |-> RaisedOnExhaustion(
                           Err("NGASServiceErrorException", num_tries))]
    ELSE IF Retriable(result)
    THEN IF TriesLeft(num_tries, max_tries)
         THEN [next |-> "sleep", complete |-> FALSE, exc |-> NoErr]
         ELSE [next |-> "raise", complete |-> FALSE,
               exc |-> RaisedOnExhaustion(Err(result, num_tries))]
    ELSE [next |-> "raise", complete |-> FALSE, exc |-> Err(result, num_tries)]

(***************************************************************************)
(* The state.                                                              *)
(*                                                                         *)
(* args, settings : the request and the settings of the run                *)
(* env            : the environment, fixed for a run: what the location    *)
(*                  file and the location service hold, how the storage    *)
(*                  servers behave, the file system before the run         *)
(* phase          : where the orchestrator is                              *)
(* exit_code      : the exit status of the process (in DONE and FAIL)      *)
(* surfaced       : the exception that ended the run ("none": none)        *)
(* files_report, servers_report : LocationsReport's two reports            *)
(* bucketized_files, num_files_expected, num_files_retrieved, retrieved :  *)
(*                  the fields of ParallelProductFetcher                   *)
(* dirs, files    : the file system: the state of every directory          *)
(*                  ("absent", "rw", "ro", or "file": a regular file has   *)
(*                  the directory's name) and every destination file       *)
(* umask          : the umask of the process                               *)
(* wk             : one thread per bucket: where it is (pc), the file it   *)
(*                  is at (k; "pending": the bucket waits for a thread,    *)
(*                  "cancelled": it was cancelled before a thread took     *)
(*                  it), failed_first (history: its failure was the first  *)
(*                  failure of a bucket in the run), the                   *)
(*                  retriever's num_tries and                              *)
(*                  fetch_attempted, the Retryer's num_tries (tries) and   *)
(*                  complete, what func returned or raised last, the umask *)
(*                  the thread read, the exception it died of              *)
(* log            : history, per destination: calls of the fetch           *)
(*                  primitive, sleeps, HTTP requests, whether the          *)
(*                  destination was opened for writing, the attempt in     *)
(*                  which func returned true (0: none), whether retrieve   *)
(*                  was entered and returned, what it raised, the          *)
(*                  retriever's num_tries when retrieve was left, and the  *)
(*                  status code the last NGASServiceErrorException of a    *)
(*                  fetch primitive carried (0: none)                      *)
(***************************************************************************)
VARIABLES args, settings, env, phase, exit_code, surfaced, files_report,
          servers_report, bucketized_files, num_files_expected,
          num_files_retrieved, retrieved, dirs, files, umask, wk, log

vars == <<args, settings, env, phase, exit_code, surfaced, files_report,
          servers_report, bucketized_files, num_files_expected,
          num_files_retrieved, retrieved, dirs, files, umask, wk, log>>

\* the behaviours of the storage servers
Modes == {"ok", "short", "reject", "down", "empty"}

Resp(conn_ok, status, len) == [conn_ok |-> conn_ok, status |-> status, len |-> len]

\* what a storage server in the given mode can answer to a request for
\* file_spec: "ok" serves the file as the report declares it, "short" serves
\* another number of bytes than declared, "reject" answers 400 (with a
\* one-byte error document), "down" refuses the connection, "empty" answers
\* 200 and sends or delivers nothing, "any" does any of it
Responses(mode, retrieve_method, file_spec) ==
    LET nothing == IF retrieve_method = COPY THEN NotDelivered ELSE 0
        ok     == {Resp(TRUE, HTTP_OK, file_spec.size)}
        short  == {Resp(TRUE, HTTP_OK, (file_spec.size % MaxSize) + 1)}
        reject == {Resp(TRUE, HTTP_BAD_REQUEST,
                        IF retrieve_method = COPY THEN NotDelivered ELSE 1)}
        down   == {Resp(FALSE, 0, nothing)}
        empty  == {Resp(TRUE, HTTP_OK, nothing)}
    IN  CASE mode = "ok" -> ok
          [] mode = "short" -> short
          [] mode = "reject" -> reject
          [] mode = "down" -> down
          [] mode = "empty" -> empty
          [] mode = "any" ->
                down \cup empty
                \cup {Resp(TRUE, HTTP_OK, n) : n \in 0..MaxSize}
                \cup (IF retrieve_method = COPY THEN reject
                      ELSE {Resp(TRUE, HTTP_BAD_REQUEST, n) : n \in 0..MaxSize})

\* the reports a location file or the location service can hold: the listings
\* of at most MaxFiles files of the archive, in the archive's order
Reports ==
    {SelectSeqIdx(Catalogue, idx) :
        idx \in {x \in SUBSET DOMAIN Catalogue : Cardinality(x) <= MaxFiles}}

DestsOf(report) == {_get_destination(report[i]) : i \in DOMAIN report}

SubdirsOf(report) == {d.dir : d \in DestsOf(report)} \ {Root}

\* a file system with an empty, writable output directory
CleanFs ==
    [dirs |-> [d \in Dirs |-> IF d = Root THEN "rw" ELSE "absent"],
     files |-> [d \in Dests |-> NoFile]]

\* the file systems a run can start in: the output directory is writable; at
\* most one subdirectory that the report names is there already (writable,
\* read-only, or shadowed by a regular file of its name); at most one
\* destination of the report is there already, one byte long, in a directory
\* that exists
FileSystems(report) ==
    LET dir_states ==
            {dd \in [Dirs -> {"absent", "rw", "ro", "file"}] :
                /\ dd[Root] = "rw"
                /\ \A d \in Subdirs \ SubdirsOf(report) : dd[d] = "absent"
                /\ Cardinality({d \in Subdirs : dd[d] /= "absent"}) <= 1}
        there(dd) ==
            {[d \in Dests |-> NoFile]}
            \cup {[d \in Dests |-> IF d = p THEN File(n) ELSE NoFile] :
                    p \in {x \in DestsOf(report) : dd[x.dir] \in {"rw", "ro"}},
                    n \in {1}}
    IN  UNION {{[dirs |-> dd, files |-> ff] : ff \in there(dd)} :
                 dd \in dir_states}

\* the file system whose output directory is read-only
ReadOnlyFs == [CleanFs EXCEPT !.dirs[Root] = "ro"]

NoLog == [calls |-> 0, sleeps |-> 0, requests |-> 0, opened |-> FALSE,
          completed_at |-> 0, entered |-> FALSE, returned |-> FALSE,
          raised |-> NoErr, num_tries |-> 0, status_code |-> 0]

\* the part of Init that does not depend on the inputs
InitRun ==
    /\ phase = "INIT"
    /\ exit_code = 0
    /\ surfaced = "none"
    /\ files_report = <<>>
    /\ servers_report = <<>>
    /\ bucketized_files = <<>>
    /\ num_files_expected = 0
    /\ num_files_retrieved = 0
    /\ retrieved = <<>>
    /\ dirs = env.dirs0
    /\ files = env.files0
    /\ umask = UMASK0
    /\ wk = <<>>
    /\ log = [d \in Dests |-> NoLog]

\* the environment of a run that reads its report from a location file
FileEnv(report, mode, fs) ==
    [file |-> "ok", file_files |-> report,
     service |-> HTTP_NOT_FOUND, service_files |-> <<>>,
     mode |-> mode, dirs0 |-> fs.dirs, files0 |-> fs.files]

\* the requests: a dry run never looks at force
Requests ==
    {a \in [dry_run : BOOLEAN, force : BOOLEAN, sdm_only : BOOLEAN,
            product_locator : {Null}, location_file : {"locations.json"}] :
        a.dry_run => ~a.force}

\* a run on a location file, against storage servers that all behave alike:
\* healthy servers with any request on any file system, or faulty servers
\* with a plain request, one thread per host and an empty output directory
Init ==
    /\ args \in Requests
    /\ settings \in [execution_site : {DSOC}, threads_per_host : 1..MaxThreads]
    /\ \E report \in Reports, mode \in Modes :
        \E fs \in FileSystems(report) \cup {ReadOnlyFs} :
            /\ mode /= "ok" =>
                 /\ fs = CleanFs
                 /\ ~args.dry_run /\ ~args.force /\ ~args.sdm_only
                 /\ settings.threads_per_host = 1
            /\ args.sdm_only \/ fs = ReadOnlyFs => fs.files = CleanFs.files
            /\ fs = ReadOnlyFs => ~args.dry_run /\ ~args.force
            /\ env = FileEnv(report, mode, fs)
    /\ InitRun

\* the retrieval of one file, against a storage server that answers anything,
\* with any request on any file system
InitRetrieve ==
    /\ args \in Requests
    /\ settings \in [execution_site : {DSOC}, threads_per_host : {1}]
    /\ \E report \in {r \in Reports : Len(r) = 1} :
        \E fs \in FileSystems(report) :
            env = FileEnv(report, "any", fs)
    /\ InitRun

\* the listings of any files of the archive, in the archive's order
Listings == {SelectSeqIdx(Catalogue, idx) : idx \in SUBSET DOMAIN Catalogue}

\* the resolution and the planning of a run, for any listing, either
\* execution site and any number of threads per host
InitPlan ==
    /\ args \in {a \in Requests : ~a.dry_run /\ ~a.force}
    /\ settings \in [execution_site : {DSOC, NAASC},
                     threads_per_host : 1..MaxThreads]
    /\ \E report \in Listings : env = FileEnv(report, "ok", CleanFs)
    /\ InitRun

\* the reports of at most one file: none, one to copy, one to stream
ShortReports == {<<>>, <<Catalogue[1]>>, <<Catalogue[3]>>}

\* a run on any combination of a product locator (none, empty or some) and a
\* location file (none or some), with or without an execution site, with no
\* or one thread per host, with a location file that is missing, unreadable
\* as JSON or good, a location service that answers 200, 404, another status
\* or not in time, against storage servers that are healthy or serve another
\* number of bytes than declared, into an output directory that is empty and
\* writable or read-only
InitResolve ==
    /\ args \in [dry_run : {FALSE}, force : {FALSE}, sdm_only : {FALSE},
                  product_locator : {Null, "", "uid://evla/execblock/1"},
                  location_file : {Null, "locations.json"}]
    /\ settings \in [execution_site : {DSOC, ""}, threads_per_host : {0, 1}]
    /\ env \in [file : {"ok", "missing", "bad_json"},
                 file_files : ShortReports,
                 service : {HTTP_OK, HTTP_NOT_FOUND, HTTP_BAD_REQUEST, 0},
                 service_files : ShortReports,
                 mode : {"ok", "short"},
                 dirs0 : {CleanFs.dirs, ReadOnlyFs.dirs},
                 files0 : {CleanFs.files}]
    /\ InitRun

\* a run on a report of three files of one subdirectory, two of them on one
\* host, with one thread per host (a bucket of two files and a bucket of one)
\* or two, against storage servers that are healthy or serve another number
\* of bytes than declared, into an empty output directory
\* runs of two threads on three files of the archive, two of them on one
\* host, against a storage server in any of its modes
InitLive ==
    /\ args \in {a \in Requests : ~a.sdm_only}
    /\ settings \in [execution_site : {DSOC}, threads_per_host : {1}]
    /\ \E mode \in Modes :
        env = FileEnv(<<Catalogue[1], Catalogue[2], Extra[1]>>, mode, CleanFs)
    /\ InitRun

InitOrder ==
    /\ args \in {a \in Requests : ~a.dry_run /\ ~a.sdm_only}
    /\ settings \in [execution_site : {DSOC}, threads_per_host : {1, 2}]
    /\ \E mode \in {"ok", "short"} :
        env = FileEnv(<<Catalogue[1], Catalogue[2], Extra[1]>>, mode, CleanFs)
    /\ InitRun

\* the file systems of a run that was run before: every subdirectory is there
\* and so is every destination of the report but at most MaxAbsent of them
PartlyFetchedFs(report) ==
    {[dirs |-> [d \in Dirs |-> "rw"],
      files |-> [d \in Dests |-> IF d \in DestsOf(report) \ absent
                                 THEN File(1) ELSE NoFile]] :
        absent \in {x \in SUBSET DestsOf(report) : Cardinality(x) <= MaxAbsent}}

\* a run on the whole archive with a bucket per file, more buckets than the
\* pool has threads, over the output directory of an earlier run, against
\* healthy servers or servers that reject every request
InitPool ==
    /\ args \in {a \in Requests : ~a.dry_run /\ ~a.force /\ ~a.sdm_only}
    /\ settings = [execution_site |-> DSOC,
                   threads_per_host |-> Len(Catalogue \o Extra)]
    /\ \E mode \in {"ok", "reject"} :
        \E fs \in PartlyFetchedFs(Catalogue \o Extra) :
            env = FileEnv(Catalogue \o Extra, mode, fs)
    /\ InitRun

\* a run on the whole archive with three buckets per host, one of two files
\* and one more bucket than the pool has threads, over the output directory
\* of an earlier run that left at most one file unfetched
InitQueue ==
    /\ args \in {a \in Requests : ~a.dry_run /\ ~a.force /\ ~a.sdm_only}
    /\ settings = [execution_site |-> DSOC, threads_per_host |-> 3]
    /\ \E mode \in {"ok", "reject"} :
        \E fs \in PartlyFetchedFs(Catalogue \o Extra) :
            /\ Cardinality({d \in Dests : ~fs.files[d].exists}) <= 1
            /\ env = FileEnv(Catalogue \o Extra, mode, fs)
    /\ InitRun

(***************************************************************************)
(* yoink/commands.py: the orchestrator.                                    *)
(***************************************************************************)
\* a _terminal_exception that returned, so that the caller went on
TerminateAndGoOn(kind) ==
    /\ phase' = "DONE"
    /\ surfaced' = kind
    /\ exit_code' = _terminal_exception(kind)

\* the run ends with the exception kind: Yoink._terminal_exception
Terminate(kind) ==
    /\ phase' = "FAIL"
    /\ surfaced' = kind
    /\ exit_code' = _terminal_exception(kind)

\* Yoink.__init__ up to configure_logging, which opens the log file in the
\* output directory
YoinkInit ==
    /\ phase = "INIT"
    /\ IF dirs[Root] = "rw"
       THEN /\ phase' = "RESOLVE"
            /\ UNCHANGED <<surfaced, exit_code>>
       ELSE Terminate("PermissionError")
    /\ UNCHANGED <<args, settings, env, files_report, servers_report,
                   bucketized_files, num_files_expected, num_files_retrieved,
                   retrieved, dirs, files, umask, wk, log>>

\* a reading of the location file that takes a file it cannot read for an
\* empty report
_get_location_report_from_file_lenient ==
    IF env.file = "ok" THEN [exc |-> "none", files |-> env.file_files]
    ELSE [exc |-> "none", files |-> <<>>]

\* LocationsReport._get_location_report_from_file: the report, or the
\* exception open and json.load raise
_get_location_report_from_file ==
    CASE env.file = "ok" -> [exc |-> "none", files |-> env.file_files]
      [] env.file = "missing" -> [exc |-> "FileNotFoundError", files |-> <<>>]
      [] env.file = "bad_json" -> [exc |-> "JSONDecodeError", files |-> <<>>]

\* LocationsReport._get_location_report_from_service: the report, or the
\* exception for the status of the answer (0: the request timed out)
_get_location_report_from_service ==
    IF env.service = HTTP_OK
    THEN [exc |-> "none", files |-> env.service_files]
    ELSE IF env.service = HTTP_NOT_FOUND
    THEN [exc |-> "NoLocatorException", files |-> <<>>]
    ELSE IF env.service = 0
    THEN [exc |-> "LocationServiceTimeoutException", files |-> <<>>]
    ELSE [exc |-> "LocationServiceErrorException", files |-> <<>>]

\* LocationsReport._get_files_report: the file is read when a location file
\* is given, then the service is asked when a product locator is given
_get_files_report ==
    LET from_file == _get_location_report_from_file
        from_service == _get_location_report_from_service
        result ==
            IF args.location_file /= Null /\ from_file.exc /= "none"
            THEN from_file
            ELSE IF args.product_locator /= Null THEN from_service
            ELSE from_file
    IN  IF args.product_locator = Null /\ args.location_file = Null
        THEN [exc |-> "ValueError", files |-> <<>>]
        ELSE IF result.exc /= "none" THEN result
        ELSE [exc |-> "none",
              files |-> _add_retrieve_method_field(
                            settings.execution_site,
                            _filter_sdm_only(args.sdm_only, result.files))]

\* a validation that asks for the execution site only
_capture_and_validate_input_site_only ==
    IF settings.execution_site = "" THEN "MissingSettingsException" ELSE "none"

\* LocationsReport._capture_and_validate_input: the exception it raises
_capture_and_validate_input ==
    IF settings.execution_site = "" THEN "MissingSettingsException"
    ELSE IF args.product_locator \in {Null, ""} /\ args.location_file \in {Null, ""}
    THEN "NoLocatorException"
    ELSE "none"

\* Yoink.__init__, the rest: LocationsReport(...) resolves the two reports
Resolve ==
    /\ phase = "RESOLVE"
    /\ LET invalid == _capture_and_validate_input
           report == _get_files_report
       IN  IF invalid /= "none"
           THEN /\ Terminate(invalid)
                /\ UNCHANGED <<files_report, servers_report>>
           ELSE IF report.exc /= "none"
           THEN /\ Terminate(report.exc)
                /\ UNCHANGED <<files_report, servers_report>>
           ELSE /\ files_report' = report.files
                /\ servers_report' = _get_servers_report(report.files)
                /\ phase' = "PLAN"
                /\ UNCHANGED <<surfaced, exit_code>>
    /\ UNCHANGED <<args, settings, env, bucketized_files, num_files_expected,
                   num_files_retrieved, retrieved, dirs, files, umask, wk, log>>

\* ThreadPoolExecutor(): max_workers is min(32, (os.cpu_count() or 1) + 4);
\* this is the pool of a machine with one processor, the smallest there is
max_workers == 5

\* a bucket that no thread of the pool ever takes
NeverStarted ==
    [pc |-> "pending", k |-> 1, num_tries |-> 0, fetch_attempted |-> FALSE,
     tries |-> 0, complete |-> FALSE, last |-> Null, umask |-> 0,
     exc |-> NoErr, failed_first |-> FALSE]

\* a thread that has just been handed its bucket
NewWorker ==
    [pc |-> "retrieve", k |-> 1, num_tries |-> 0, fetch_attempted |-> FALSE,
     tries |-> 0, complete |-> FALSE, last |-> Null, umask |-> 0,
     exc |-> NoErr, failed_first |-> FALSE]

\* a bucket that waits in the queue of the pool for a free thread
Pending == [NewWorker EXCEPT !.pc = "pending"]

\* Yoink.run up to executor.map: ParallelProductFetcher.__init__ counts the
\* files and fills the buckets, run submits every bucket to the pool, whose
\* threads take the first max_workers of them
Plan ==
    /\ phase = "PLAN"
    /\ num_files_expected' = _count_files_expected(servers_report)
    /\ IF settings.threads_per_host = 0 /\ servers_report /= <<>>
       THEN \* list_number = i % 0 in _bucketize_files
            /\ Terminate("ZeroDivisionError")
            /\ UNCHANGED <<bucketized_files, wk>>
       ELSE /\ bucketized_files' =
                   _bucketize_files(servers_report, settings.threads_per_host)
            /\ wk' = [b \in DOMAIN bucketized_files' |->
                         IF b <= max_workers THEN NewWorker ELSE Pending]
            /\ phase' = "FETCH"
            /\ UNCHANGED <<exit_code, surfaced>>
    /\ UNCHANGED <<args, settings, env, files_report, servers_report,
                   num_files_retrieved, retrieved, dirs, files, umask, log>>

(***************************************************************************)
(* One thread of the pool: fetch_bucket -> retrieve_files -> retrieve.     *)
(***************************************************************************)
Workers == DOMAIN wk

\* a thread that goes through its bucket from the end
CurFileBackwards(b) ==
    bucketized_files[b].files[Len(bucketized_files[b].files) + 1 - wk[b].k]

\* the file spec and the destination thread b is at
CurFile(b) == bucketized_files[b].files[wk[b].k]

CurDest(b) == _get_destination(CurFile(b))

\* whether a failure that happens now is the first failure of a bucket in
\* the run
FirstFailure == \A c \in Workers : wk[c].pc /= "failed"

\* a retrieve_files that notes the exception e and goes on to the next file
\* of the bucket
RaiseAndGoOn(b, e, tries) ==
    /\ wk' = [wk EXCEPT
                ![b].pc = IF wk[b].k < Len(bucketized_files[b].files)
                          THEN "retrieve" ELSE "failed",
                ![b].k = IF wk[b].k < Len(bucketized_files[b].files)
                         THEN @ + 1 ELSE @,
                ![b].exc = e,
                ![b].num_tries = tries,
                ![b].failed_first = \A c \in Workers : wk[c].pc /= "failed"]
    /\ log' = [log EXCEPT ![_get_destination(bucketized_files[b].files[wk[b].k])] =
                              [@ EXCEPT !.raised = e, !.entered = TRUE,
                                        !.num_tries = tries]]

\* the exception e leaves retrieve, retrieve_files and fetch_bucket: the
\* thread ends, the future holds the exception
Raise(b, e, tries) ==
    /\ wk' = [wk EXCEPT ![b].pc = "failed", ![b].exc = e,
                        ![b].num_tries = tries,
                        ![b].failed_first = FirstFailure]
    /\ log' = [log EXCEPT ![CurDest(b)].raised = e,
                          ![CurDest(b)].entered = TRUE,
                          ![CurDest(b)].num_tries = tries]

\* NGASFileRetriever.retrieve, from its entry to the call of _make_basedir
RetrieveBegin(b) ==
    /\ phase = "FETCH"
    /\ wk[b].pc = "retrieve"
    /\ LET destination == CurDest(b)
       IN  IF PreflightRaises(files[destination].exists, args.force,
                              args.dry_run)
           THEN Raise(b, Err("FileExistsError", 0), wk[b].num_tries)
           ELSE /\ wk' = [wk EXCEPT ![b].pc = IF MakesBasedir(args.dry_run)
                                              THEN "basedir" ELSE "retry",
                                    ![b].tries = 0,
                                    ![b].complete = FALSE,
                                    ![b].last = Null]
                /\ log' = [log EXCEPT ![destination].entered = TRUE]
    /\ UNCHANGED <<args, settings, env, phase, exit_code, surfaced,
                   files_report, servers_report, bucketized_files,
                   num_files_expected, num_files_retrieved, retrieved, dirs,
                   files, umask>>

\* _make_basedir: the check that an existing directory is writable
BasedirCheck(b) ==
    /\ phase = "FETCH"
    /\ wk[b].pc = "basedir"
    /\ IF BasedirNotWritable(dirs[dirname(CurDest(b))])
       THEN Raise(b, Err("FileErrorException", 0), wk[b].num_tries)
       ELSE /\ wk' = [wk EXCEPT ![b].pc = "umask"]
            /\ UNCHANGED log
    /\ UNCHANGED <<args, settings, env, phase, exit_code, surfaced,
                   files_report, servers_report, bucketized_files,
                   num_files_expected, num_files_retrieved, retrieved, dirs,
                   files, umask>>

\* _make_basedir: umask = os.umask(0o000)
UmaskClear(b) ==
    /\ phase = "FETCH"
    /\ wk[b].pc = "umask"
    /\ wk' = [wk EXCEPT ![b].pc = "mkdir", ![b].umask = umask]
    /\ umask' = 0
    /\ UNCHANGED <<args, settings, env, phase, exit_code, surfaced,
                   files_report, servers_report, bucketized_files,
                   num_files_expected, num_files_retrieved, retrieved, dirs,
                   files, log>>

\* Path(basedir).mkdir(parents=True, exist_ok=True): whether it raises OSError
MkdirFails(basedir) ==
    \/ dirs[basedir] = "file"
    \/ dirs[basedir] = "absent" /\ dirs[Root] /= "rw"

\* _make_basedir: Path(basedir).mkdir(parents=True, exist_ok=True); an OSError
\* becomes FileErrorException, and os.umask(umask) is not reached
Mkdir(b) ==
    /\ phase = "FETCH"
    /\ wk[b].pc = "mkdir"
    /\ LET basedir == dirname(CurDest(b))
       IN  IF MkdirFails(basedir)
           THEN /\ Raise(b, Err("FileErrorException", 0), wk[b].num_tries)
                /\ UNCHANGED dirs
           ELSE /\ dirs' = [dirs EXCEPT ![basedir] =
                               IF @ = "absent" THEN "rw" ELSE @]
                /\ wk' = [wk EXCEPT ![b].pc = "restore"]
                /\ UNCHANGED log
    /\ UNCHANGED <<args, settings, env, phase, exit_code, surfaced,
                   files_report, servers_report, bucketized_files,
                   num_files_expected, num_files_retrieved, retrieved, files,
                   umask>>

\* _make_basedir: os.umask(umask)
UmaskRestore(b) ==
    /\ phase = "FETCH"
    /\ wk[b].pc = "restore"
    /\ umask' = wk[b].umask
    /\ wk' = [wk EXCEPT ![b].pc = "retry"]
    /\ UNCHANGED <<args, settings, env, phase, exit_code, surfaced,
                   files_report, servers_report, bucketized_files,
                   num_files_expected, num_files_retrieved, retrieved, dirs,
                   files, log>>

\* Retryer.retry: one pass of the loop: num_tries += 1, the call of func, and
\* what the body does with what func returned or raised
RetryAttempt(b) ==
    /\ phase = "FETCH"
    /\ wk[b].pc = "retry"
    /\ RetryLoopCond(wk[b].tries, MAX_TRIES, wk[b].complete)
    /\ LET destination == CurDest(b)
           retrieve_method == bucketized_files[b].retrieve_method
           num_tries == CountTry(wk[b].tries)
       IN  \E resp \in Responses(env.mode, retrieve_method, CurFile(b)) :
             LET out == func(retrieve_method, args.dry_run, CurFile(b), resp,
                             files[destination])
                 body == RetryBody(num_tries, MAX_TRIES, out.result)
                 logged == [log[destination] EXCEPT
                               !.calls = @ + 1,
                               !.requests = @ + out.requests,
                               !.opened = @ \/ out.opened,
                               !.status_code =
                                   status_code(out.result, resp, @),
                               !.completed_at =
                                   IF body.complete /\ @ = 0
                                   THEN log[destination].calls + 1 ELSE @]
                 attempted == wk[b].fetch_attempted \/ retrieve_method /= COPY
             IN  /\ files' = [files EXCEPT ![destination] = out.file]
                 /\ IF body.next = "raise"
                    THEN /\ wk' = [wk EXCEPT ![b].pc = "failed",
                                             ![b].failed_first = FirstFailure,
                                             ![b].exc = body.exc,
                                             ![b].tries = num_tries,
                                             ![b].num_tries = num_tries,
                                             ![b].last = out.result,
                                             ![b].fetch_attempted = attempted]
                         /\ log' = [log EXCEPT ![destination] =
                                       [logged EXCEPT
                                           !.raised = body.exc,
                                           !.num_tries = num_tries]]
                    ELSE /\ wk' = [wk EXCEPT ![b].pc =
                                                 IF body.next = "sleep"
                                                 THEN "sleep" ELSE "retry",
                                             ![b].tries = num_tries,
                                             ![b].complete = body.complete,
                                             ![b].last = out.result,
                                             ![b].fetch_attempted = attempted]
                         /\ log' = [log EXCEPT ![destination] = logged]
    /\ UNCHANGED <<args, settings, env, phase, exit_code, surfaced,
                   files_report, servers_report, bucketized_files,
                   num_files_expected, num_files_retrieved, retrieved, dirs,
                   umask>>

\* Retryer.retry: time.sleep(self.sleep_interval)
Sleep(b) ==
    /\ phase = "FETCH"
    /\ wk[b].pc = "sleep"
    /\ wk' = [wk EXCEPT ![b].pc = "retry"]
    /\ log' = [log EXCEPT ![CurDest(b)].sleeps = @ + 1]
    /\ UNCHANGED <<args, settings, env, phase, exit_code, surfaced,
                   files_report, servers_report, bucketized_files,
                   num_files_expected, num_files_retrieved, retrieved, dirs,
                   files, umask>>

\* the loop of Retryer.retry ends and retry returns; retrieve copies
\* num_tries, calls _check_result and returns the destination, which
\* retrieve_files appends to self.retrieved before it goes to its next file
RetrieveEnd(b) ==
    /\ phase = "FETCH"
    /\ wk[b].pc = "retry"
    /\ ~RetryLoopCond(wk[b].tries, MAX_TRIES, wk[b].complete)
    /\ LET destination == CurDest(b)
           bad == _check_result(args.dry_run, CurFile(b), files[destination])
       IN  IF bad /= "none"
           THEN /\ Raise(b, Err(bad, 0), wk[b].tries)
                /\ UNCHANGED retrieved
           ELSE /\ retrieved' = Append(retrieved, destination)
                /\ log' = [log EXCEPT ![destination].returned = TRUE,
                                      ![destination].num_tries = wk[b].tries]
                /\ wk' = [wk EXCEPT
                            ![b].num_tries = wk[b].tries,
                            ![b].pc = IF wk[b].k < Len(bucketized_files[b].files)
                                      THEN "retrieve" ELSE "done",
                            ![b].k = IF wk[b].k < Len(bucketized_files[b].files)
                                     THEN @ + 1 ELSE @]
    /\ UNCHANGED <<args, settings, env, phase, exit_code, surfaced,
                   files_report, servers_report, bucketized_files,
                   num_files_expected, num_files_retrieved, dirs, files, umask>>

(***************************************************************************)
(* ParallelProductFetcher.run, after executor.map.                         *)
(***************************************************************************)
\* the threads whose bucket raised
Failed == {b \in Workers : wk[b].pc = "failed"}

\* what fetch_bucket returns: it has no return statement
fetch_bucket_result == Null

\* as_completed(results) makes a set of the results, which takes them from
\* executor.map in the order of the buckets and raises the exception of the
\* first bucket in that order that has one; with no exception it asks each
\* member of the set for the lock of a future, and a None has none
AsCompleted ==
    IF Failed /= {}
    THEN wk[CHOOSE b \in Failed : \A c \in Failed : b <= c].exc.kind
    ELSE IF Workers = {} THEN "none"
    ELSE IF fetch_bucket_result = Null THEN "AttributeError"
    ELSE "none"

\* the number of files in a directory
FilesIn(dir) == Cardinality({d \in Dests : d.dir = dir /\ files[d].exists})

\* the handler of AttributeError walks the output directory: in the first
\* subdirectory os.walk lists (first), it looks for a directory that holds as
\* many files as are expected
WalkFinds(first) == num_files_expected = FilesIn(first)

\* the buckets a thread of the pool is running
Running == {b \in Workers : wk[b].pc \notin {"pending", "cancelled", "done", "failed"}}

\* a thread of the pool that is free takes the next bucket from the queue
StartBucket(b) ==
    /\ phase = "FETCH"
    /\ wk[b].pc = "pending"
    /\ \A c \in Workers : c < b => wk[c].pc /= "pending"
    /\ Cardinality(Running) < max_workers
    /\ wk' = [wk EXCEPT ![b].pc = "retrieve"]
    /\ UNCHANGED <<args, settings, env, phase, exit_code, surfaced,
                   files_report, servers_report, bucketized_files,
                   num_files_expected, num_files_retrieved, retrieved, dirs,
                   files, umask, log>>

\* as_completed(results) takes the results from executor.map in the order of
\* the buckets; when it comes to a bucket that raised, the iterator of
\* executor.map cancels the buckets that no thread has taken yet
CancelPending ==
    /\ phase = "FETCH"
    /\ \E b \in Workers :
        /\ wk[b].pc = "failed"
        /\ \A c \in Workers : c < b => wk[c].pc = "done"
    /\ \E b \in Workers : wk[b].pc = "pending"
    /\ wk' = [b \in Workers |->
                 IF wk[b].pc = "pending"
                 THEN [wk[b] EXCEPT !.pc = "cancelled"] ELSE wk[b]]
    /\ UNCHANGED <<args, settings, env, phase, exit_code, surfaced,
                   files_report, servers_report, bucketized_files,
                   num_files_expected, num_files_retrieved, retrieved, dirs,
                   files, umask, log>>

\* run, from as_completed to its end, once every thread has ended: leaving
\* the with block waits for them all
RunEnd ==
    /\ phase = "FETCH"
    /\ \A b \in Workers : wk[b].pc \in {"done", "failed", "cancelled"}
    /\ LET raised == AsCompleted
           listed == {d \in Subdirs : dirs[d] \in {"rw", "ro"}}
       IN  IF raised = "none"
           THEN /\ phase' = "DONE"
                /\ UNCHANGED <<exit_code, surfaced, num_files_retrieved>>
           ELSE IF raised = "AttributeError"
           THEN \E first \in listed \cup {Null} :
                  /\ first = Null <=> listed = {}
                  /\ IF first /= Null /\ WalkFinds(first)
                     THEN /\ num_files_retrieved' = num_files_expected
                          /\ phase' = "DONE"
                          /\ UNCHANGED <<exit_code, surfaced>>
                     ELSE /\ Terminate("NGASServiceErrorException")
                          /\ UNCHANGED num_files_retrieved
           ELSE /\ Terminate(raised)
                /\ UNCHANGED num_files_retrieved
    /\ UNCHANGED <<args, settings, env, files_report, servers_report,
                   bucketized_files, num_files_expected, retrieved, dirs,
                   files, umask, wk, log>>

Next ==
    \/ YoinkInit
    \/ Resolve
    \/ Plan
    \/ \E b \in Workers : RetrieveBegin(b)
    \/ \E b \in Workers : BasedirCheck(b)
    \/ \E b \in Workers : UmaskClear(b)
    \/ \E b \in Workers : Mkdir(b)
    \/ \E b \in Workers : UmaskRestore(b)
    \/ \E b \in Workers : RetryAttempt(b)
    \/ \E b \in Workers : Sleep(b)
    \/ \E b \in Workers : RetrieveEnd(b)
    \/ RunEnd

\* a run up to the start of its threads
NextPlan ==
    \/ YoinkInit
    \/ Resolve
    \/ Plan

\* a run whose buckets can outnumber the threads of the pool
NextPool ==
    \/ Next
    \/ \E b \in Workers : StartBucket(b)
    \/ CancelPending

Spec == Init /\ [][Next]_vars

SpecRetrieve == InitRetrieve /\ [][Next]_vars

SpecPlan == InitPlan /\ [][NextPlan]_vars

SpecPool == InitPool /\ [][NextPool]_vars

SpecQueue == InitQueue /\ [][NextPool]_vars

SpecResolve == InitResolve /\ [][Next]_vars

SpecOrder == InitOrder /\ [][Next]_vars

\* every request, file operation and sleep returns, and every thread that can
\* take a step is scheduled in the end: a run that can go on does go on
SpecLive == InitLive /\ [][Next]_vars /\ WF_vars(Next)

(***************************************************************************)
(* yoink/utilities.py: a Retryer of its own, around any function.          *)
(***************************************************************************)
\* what the wrapped function does in one call: it returns a true value or a
\* false one, or it raises
FuncResults ==
    {"True", "False", "NGASServiceErrorException", "SizeMismatchException",
     "FileErrorException"}

\* Retryer.__init__
NewRetryer ==
    [pc |-> "loop", num_tries |-> 0, complete |-> FALSE, exc |-> NoErr,
     last |-> Null, sleeps |-> 0]

\* Retryer(func, max_tries, sleep_interval) for every max_tries up to
\* MaxTriesArg and every func, given by what it does in each of its calls
InitRetryer ==
    /\ args = [product_locator |-> Null, location_file |-> Null,
               dry_run |-> FALSE, force |-> FALSE, sdm_only |-> FALSE]
    /\ settings = [execution_site |-> DSOC, threads_per_host |-> 1]
    /\ \E max_tries \in 1..MaxTriesArg :
        \E results \in [1..max_tries -> FuncResults] :
            env = [max_tries |-> max_tries, results |-> results,
                   dirs0 |-> CleanFs.dirs, files0 |-> CleanFs.files]
    /\ phase = "FETCH"
    /\ exit_code = 0
    /\ surfaced = "none"
    /\ files_report = <<>>
    /\ servers_report = <<>>
    /\ bucketized_files = <<>>
    /\ num_files_expected = 0
    /\ num_files_retrieved = 0
    /\ retrieved = <<>>
    /\ dirs = env.dirs0
    /\ files = env.files0
    /\ umask = UMASK0
    /\ wk = <<NewRetryer>>
    /\ log = [d \in Dests |-> NoLog]

\* Retryer.retry: one pass of the while loop: num_tries += 1, the call of
\* func, and what the body does with what func returned or raised
RetryerLoop ==
    /\ wk[1].pc = "loop"
    /\ RetryLoopCond(wk[1].num_tries, env.max_tries, wk[1].complete)
    /\ LET num_tries == CountTry(wk[1].num_tries)
           success == env.results[num_tries]
           body == RetryBody(num_tries, env.max_tries, success)
       IN  wk' = [wk EXCEPT ![1] =
                     [@ EXCEPT !.num_tries = num_tries,
                               !.last = success,
                               !.complete = body.complete,
                               !.exc = body.exc,
                               !.pc = IF body.next = "raise" THEN "raised"
                                      ELSE IF body.next = "sleep" THEN "sleep"
                                      ELSE "loop"]]
    /\ UNCHANGED <<args, settings, env, phase, exit_code, surfaced,
                   files_report, servers_report, bucketized_files,
                   num_files_expected, num_files_retrieved, retrieved, dirs,
                   files, umask, log>>

\* Retryer.retry: time.sleep(self.sleep_interval)
RetryerSleep ==
    /\ wk[1].pc = "sleep"
    /\ wk' = [wk EXCEPT ![1].pc = "loop", ![1].sleeps = @ + 1]
    /\ UNCHANGED <<args, settings, env, phase, exit_code, surfaced,
                   files_report, servers_report, bucketized_files,
                   num_files_expected, num_files_retrieved, retrieved, dirs,
                   files, umask, log>>

\* Retryer.retry: the while loop ends and retry returns
RetryerReturn ==
    /\ wk[1].pc = "loop"
    /\ ~RetryLoopCond(wk[1].num_tries, env.max_tries, wk[1].complete)
    /\ wk' = [wk EXCEPT ![1].pc = "returned"]
    /\ UNCHANGED <<args, settings, env, phase, exit_code, surfaced,
                   files_report, servers_report, bucketized_files,
                   num_files_expected, num_files_retrieved, retrieved, dirs,
                   files, umask, log>>

NextRetryer ==
    \/ RetryerLoop
    \/ RetryerSleep
    \/ RetryerReturn

SpecRetryer == InitRetryer /\ [][NextRetryer]_vars

(***************************************************************************)
(* Properties.                                                             *)
(***************************************************************************)
\* the file spec of the files report that is saved at destination d
SpecAt(d) == CHOOSE f \in Range(files_report) : _get_destination(f) = d

\* the error classes the Retryer is said to retry
RetriedErrors == {"NGASServiceErrorException", "SizeMismatchException"}

\* C1: when retrieve returns normally and the run is not a dry run, the
\* destination exists and its size on disk is the size the file spec declares,
\* whatever the retrieve method and whatever attempts failed before
C1_ReturnedFileHasDeclaredSize ==
    \A d \in Dests :
        log[d].returned /\ ~args.dry_run =>
            /\ files[d].exists
            /\ files[d].size = SpecAt(d).size

\* retrieve returned, not in a dry run, after at least two failed attempts
C1_Witness ==
    \E d \in Dests :
        /\ log[d].returned
        /\ ~args.dry_run
        /\ log[d].completed_at >= 3

\* C2: when every single-file fetch of a run succeeds,
\* ParallelProductFetcher.run returns successfully, with as many paths as the
\* files report lists after the SDM filter
C2_RunReturnsEveryPath ==
    (/\ phase \in {"DONE", "FAIL"}
     /\ Workers /= {}
     /\ \A b \in Workers : wk[b].pc = "done")
    => /\ phase = "DONE"
       /\ Len(retrieved) = Len(files_report)

\* C3: when the run is neither a dry run nor forced and the destination is
\* there already, retrieve raises FileExistsError before it issues an HTTP
\* request or opens the destination, whose bytes stay as they were; when this
\* is the only failure of the run, the process exits with code 12
C3_ExistingDestinationIsRefused ==
    /\ \A d \in Dests :
        (/\ log[d].entered
         /\ env.files0[d].exists
         /\ ~args.dry_run
         /\ ~args.force)
        => /\ log[d].raised = Err("FileExistsError", 0)
           /\ log[d].calls = 0
           /\ log[d].requests = 0
           /\ ~log[d].opened
           /\ ~log[d].returned
           /\ files[d] = env.files0[d]
    /\ (/\ phase \in {"DONE", "FAIL"}
        /\ Cardinality(Failed) = 1
        /\ \E b \in Failed : wk[b].exc.kind = "FileExistsError")
       => /\ phase = "FAIL"
          /\ surfaced = "FileExistsError"
          /\ exit_code = 12

\* the run ended on the FileExistsError of a destination that was there
C3_Witness ==
    /\ phase = "FAIL"
    /\ ~args.dry_run
    /\ ~args.force
    /\ \E d \in Dests :
        /\ env.files0[d].exists
        /\ log[d].raised.kind = "FileExistsError"

\* C4: in a dry run no HTTP request is issued, no directory is created, no
\* destination is created or modified, and every call of retrieve returns
\* successfully, however many calls the run makes
C4_DryRunTouchesNothing ==
    args.dry_run =>
        /\ dirs = env.dirs0
        /\ files = env.files0
        /\ umask = UMASK0
        /\ \A d \in Dests :
            /\ log[d].requests = 0
            /\ ~log[d].opened
            /\ log[d].raised = NoErr
        /\ \A b \in Workers :
            /\ wk[b].pc \in {"retrieve", "retry", "done"}
            /\ wk[b].pc = "done" =>
                 \A k \in DOMAIN bucketized_files[b].files :
                     log[_get_destination(bucketized_files[b].files[k])].returned

\* a dry run returned from two calls of retrieve, one of them for a
\* destination that was there already
C4_Witness ==
    /\ args.dry_run
    /\ Len(retrieved) >= 2
    /\ \E d \in Dests : env.files0[d].exists /\ log[d].returned

\* C5: one call of Retryer.retry invokes func at most max_tries times
C5_AtMostMaxTries ==
    /\ \A d \in Dests : log[d].calls <= MAX_TRIES
    /\ \A b \in Workers : wk[b].tries <= MAX_TRIES

\* func was invoked max_tries times for one file
C5_Witness ==
    \E b \in Workers :
        /\ wk[b].tries = MAX_TRIES
        /\ log[CurDest(b)].calls = MAX_TRIES

\* C6: the Retryer tries again only after func raised
\* NGASServiceErrorException or SizeMismatchException; any other error of
\* func leaves retry at once, with no sleep and no further invocation
C6_OnlyServiceAndSizeErrorsAreRetried ==
    \A b \in Workers :
        /\ wk[b].pc = "sleep" => wk[b].last \in RetriedErrors
        /\ (wk[b].pc = "retry" /\ wk[b].tries >= 1 /\ ~wk[b].complete)
           => wk[b].last \in RetriedErrors
        /\ wk[b].last \notin RetriedErrors \cup {"True", Null}
           => /\ wk[b].pc = "failed"
              /\ wk[b].exc = Err(wk[b].last, wk[b].tries)
              /\ log[CurDest(b)].calls = wk[b].tries
              /\ log[CurDest(b)].sleeps = wk[b].tries - 1

\* the first attempt raised FileErrorException, and retrieve failed with it
\* after that one invocation and no sleep
C6_Witness ==
    \E b \in Workers :
        /\ wk[b].pc = "failed"
        /\ wk[b].exc = Err("FileErrorException", 1)
        /\ log[CurDest(b)].calls = 1
        /\ log[CurDest(b)].sleeps = 0

\* C7: once func has returned true there is no further invocation and no
\* further sleep; when the first attempt succeeds the retriever's num_tries
\* is 1 after retrieve
C7_SuccessEndsTheLoop ==
    /\ \A d \in Dests :
        /\ log[d].completed_at > 0 =>
             /\ log[d].calls = log[d].completed_at
             /\ log[d].sleeps = log[d].completed_at - 1
        /\ (log[d].completed_at = 1 /\ (log[d].returned \/ log[d].raised /= NoErr))
           => log[d].num_tries = 1
    /\ \A b \in Workers : wk[b].complete => wk[b].pc /= "sleep"

\* retrieve returned, not in a dry run, after its first attempt succeeded
C7_Witness ==
    \E d \in Dests :
        /\ ~args.dry_run
        /\ log[d].returned
        /\ log[d].completed_at = 1
        /\ log[d].num_tries = 1

\* C8: when all max_tries attempts fail with an error that is retried, retry
\* raises the error of the last attempt, and the retriever's num_tries is
\* MAX_TRIES after retrieve has failed
C8_ExhaustionRaisesLastError ==
    \A b \in Workers :
        (log[CurDest(b)].calls = MAX_TRIES /\ wk[b].last \in RetriedErrors)
        => /\ wk[b].pc = "failed"
           /\ wk[b].exc = Err(wk[b].last, MAX_TRIES)
           /\ log[CurDest(b)].raised = wk[b].exc
           /\ wk[b].num_tries = MAX_TRIES
           /\ log[CurDest(b)].num_tries = MAX_TRIES

\* the tenth attempt raised SizeMismatchException and retrieve failed with it
C8_Witness ==
    \E b \in Workers :
        /\ wk[b].pc = "failed"
        /\ wk[b].exc = Err("SizeMismatchException", MAX_TRIES)
        /\ wk[b].num_tries = MAX_TRIES

\* C9: when all attempts fail, the Retryer has slept max_tries - 1 times; it
\* sleeps only between a failed attempt and the next one, never after the
\* last attempt and never after a success
C9_SleepsBetweenAttemptsOnly ==
    /\ \A d \in Dests :
        log[d].calls > 0 => log[d].sleeps \in {log[d].calls - 1, log[d].calls}
    /\ \A b \in Workers :
        LET d == CurDest(b)
        IN  /\ wk[b].pc = "sleep" =>
                 /\ wk[b].tries < MAX_TRIES
                 /\ ~wk[b].complete
                 /\ wk[b].last /= "True"
                 /\ log[d].sleeps = log[d].calls - 1
            /\ (log[d].calls > 0 /\ log[d].sleeps = log[d].calls) =>
                 /\ wk[b].pc = "retry"
                 /\ wk[b].tries < MAX_TRIES
                 /\ ~wk[b].complete
            /\ (wk[b].pc = "failed" /\ log[d].calls = MAX_TRIES
                /\ wk[b].last /= "True")
               => log[d].sleeps = MAX_TRIES - 1

\* all attempts failed, after max_tries - 1 sleeps
C9_Witness ==
    \E b \in Workers :
        /\ wk[b].pc = "failed"
        /\ wk[b].last \in RetriedErrors
        /\ log[CurDest(b)].calls = MAX_TRIES
        /\ log[CurDest(b)].sleeps = MAX_TRIES - 1

MethodAt(d) ==
    LET b == CHOOSE c \in DOMAIN bucketized_files :
                 \E k \in DOMAIN bucketized_files[c].files :
                     _get_destination(bucketized_files[c].files[k]) = d
    IN  bucketized_files[b].retrieve_method

C12_AnnotationRule ==
    \A i \in DOMAIN files_report :
        LET server == files_report[i].server
            local == server.cluster = "DSOC"
                     /\ server.location = settings.execution_site
        IN  /\ server.retrieve_method \in {"copy", "stream"}
            /\ server.retrieve_method = "copy" <=> local
            /\ server.retrieve_method = "stream" <=> ~local

\* a report was annotated, at execution site NAASC, with a file to copy and a
\* file to stream from a server whose location is the execution site
C12_Witness ==
    /\ settings.execution_site = "NAASC"
    /\ \E i, j \in DOMAIN files_report :
        /\ files_report[i].server.retrieve_method = "copy"
        /\ files_report[j].server.retrieve_method = "stream"
        /\ files_report[j].server.location = "NAASC"

\* a file spec of the files report as the location file listed it
Listed(file_spec) ==
    [ngas_file_id |-> file_spec.ngas_file_id,
     subdirectory |-> file_spec.subdirectory,
     relative_path |-> file_spec.relative_path,
     size |-> file_spec.size,
     server |-> [server |-> file_spec.server.server,
                 location |-> file_spec.server.location,
                 cluster |-> file_spec.server.cluster]]

\* whether the last four characters of a path are .xml or .bin
IsSdm(path) ==
    /\ Len(path) >= 4
    /\ SubSeq(path, Len(path) - 3, Len(path))
           \in {<<".", "x", "m", "l">>, <<".", "b", "i", "n">>}

\* C13: with sdm_only set, the files report holds exactly the files of the
\* input whose relative_path ends in .xml or .bin, in the order of the input;
\* with sdm_only unset it holds the files of the input unchanged
C13_SdmOnlyFilter ==
    phase \in {"PLAN", "FETCH"} =>
        LET input == env.file_files
            kept == IF args.sdm_only
                    THEN {i \in DOMAIN input : IsSdm(input[i].relative_path)}
                    ELSE DOMAIN input
        IN  [i \in DOMAIN files_report |-> Listed(files_report[i])]
                = SelectSeqIdx(input, kept)

\* a report was filtered: some files were dropped and at least two were kept,
\* a .bin file among them
C13_Witness ==
    /\ phase = "PLAN"
    /\ args.sdm_only
    /\ Len(files_report) >= 2
    /\ Len(files_report) < Len(env.file_files)
    /\ \E i \in DOMAIN files_report : files_report[i].ngas_file_id = "f2"

\* the buckets of the server host
BucketsFor(host) ==
    {b \in DOMAIN bucketized_files : bucketized_files[b].server = host}

\* C14: the buckets partition the work: every bucket holds at least one
\* file, every file of a server is in exactly one bucket of that server, and
\* the buckets of a server hold no file that is not in the server's list
C14_BucketsPartitionTheWork ==
    phase = "FETCH" =>
        /\ \A b \in DOMAIN bucketized_files :
            /\ Len(bucketized_files[b].files) >= 1
            /\ \E n \in DOMAIN servers_report :
                /\ servers_report[n].server = bucketized_files[b].server
                /\ Range(bucketized_files[b].files)
                       \subseteq Range(servers_report[n].files)
        /\ \A n \in DOMAIN servers_report :
            \A k \in DOMAIN servers_report[n].files :
                Cardinality(
                    {<<b, j>> \in (DOMAIN bucketized_files) \X (1..Len(Catalogue)) :
                        /\ b \in BucketsFor(servers_report[n].server)
                        /\ j \in DOMAIN bucketized_files[b].files
                        /\ bucketized_files[b].files[j]
                               = servers_report[n].files[k]}) = 1

\* the three files of one server were dealt to two buckets, next to the
\* bucket of another server
C14_Witness ==
    /\ phase = "FETCH"
    /\ \E n \in DOMAIN servers_report :
        /\ Len(servers_report[n].files) = 3
        /\ Cardinality(BucketsFor(servers_report[n].server)) = 2
    /\ Len(servers_report) = 2

\* the buckets of the server host, in the order of the plan
BucketSeq(host) ==
    SelectSeqIdx([b \in DOMAIN bucketized_files |-> b], BucketsFor(host))

\* C15: with N = threads_per_host, the i-th file (counted from 0) of a
\* server's list is in that server's bucket number i mod N, and the files of
\* a bucket are in the order of the server's list: the i-th file is the
\* (i div N)-th file of its bucket
C15_RoundRobinInListingOrder ==
    phase = "FETCH" =>
        \A n \in DOMAIN servers_report :
            LET N == settings.threads_per_host
                mine == BucketSeq(servers_report[n].server)
            IN  \A k \in DOMAIN servers_report[n].files :
                    LET i == k - 1
                    IN  /\ (i % N) + 1 \in DOMAIN mine
                        /\ (i \div N) + 1 \in
                               DOMAIN bucketized_files[mine[(i % N) + 1]].files
                        /\ bucketized_files[mine[(i % N) + 1]].files[(i \div N) + 1]
                               = servers_report[n].files[k]

\* with two threads per host, the three files of one server went to its first,
\* its second and again its first bucket
C15_Witness ==
    /\ phase = "FETCH"
    /\ settings.threads_per_host = 2
    /\ \E n \in DOMAIN servers_report :
        /\ Len(servers_report[n].files) = 3
        /\ Len(bucketized_files[BucketSeq(servers_report[n].server)[1]].files) = 2
        /\ Len(bucketized_files[BucketSeq(servers_report[n].server)[2]].files) = 1

\* the ngas_file_ids of a list of file specs
Ids(file_specs) == [k \in DOMAIN file_specs |-> file_specs[k].ngas_file_id]

\* C16: the servers report groups the files report by server host: no host
\* has two entries, the files of an entry are the files of the files report
\* that name its host, in listing order and without their server field, and
\* the file counts of the entries add up to the length of the files report
C16_ServersReportGroupsByHost ==
    phase \in {"PLAN", "FETCH"} =>
        /\ \A n, m \in DOMAIN servers_report :
            servers_report[n].server = servers_report[m].server => n = m
        /\ \A i \in DOMAIN files_report :
            \E n \in DOMAIN servers_report :
                servers_report[n].server = files_report[i].server.server
        /\ \A n \in DOMAIN servers_report :
            LET named == SelectSeqIdx(files_report,
                             {i \in DOMAIN files_report :
                                 files_report[i].server.server
                                     = servers_report[n].server})
            IN  /\ Ids(servers_report[n].files) = Ids(named)
                /\ \A k \in DOMAIN named :
                    /\ servers_report[n].files[k].relative_path
                           = named[k].relative_path
                    /\ servers_report[n].files[k].subdirectory
                           = named[k].subdirectory
                    /\ servers_report[n].files[k].size = named[k].size
        /\ Cardinality({<<n, k>> \in (DOMAIN servers_report) \X (1..Len(Catalogue)) :
                           k \in DOMAIN servers_report[n].files})
               = Len(files_report)
        /\ phase = "FETCH" => num_files_expected = Len(files_report)

\* a report that lists a file of one host between two files of another host
\* was grouped
C16_Witness ==
    /\ phase = "PLAN"
    /\ Len(servers_report) = 2
    /\ \E i, j, k \in DOMAIN files_report :
        /\ i < j /\ j < k
        /\ files_report[i].server.server = files_report[k].server.server
        /\ files_report[i].server.server /= files_report[j].server.server

\* the threads that are at work on a file of the server host
Fetching(host) ==
    {b \in Workers :
        /\ bucketized_files[b].server = host
        /\ wk[b].pc \notin {"done", "failed"}}

\* C17: in every state of a parallel run, at most threads_per_host fetches
\* are in progress against any one server host: a host has at most
\* threads_per_host buckets, and a thread is at one file of its bucket at a time
C17_AtMostThreadsPerHostFetches ==
    \A host \in Hosts :
        /\ Cardinality(BucketsFor(host)) <= settings.threads_per_host
        /\ Cardinality(Fetching(host)) <= settings.threads_per_host

\* two threads are in the retry loop for files of the same host at once
C17_Witness ==
    \E b, c \in Workers :
        /\ b /= c
        /\ bucketized_files[b].server = bucketized_files[c].server
        /\ wk[b].pc = "retry" /\ wk[b].tries = 0
        /\ wk[c].pc = "retry" /\ wk[c].tries = 0
        /\ settings.threads_per_host = 2

\* C18: when a bucket fails with a fatal error no other bucket is cancelled:
\* every other bucket runs until it has fetched all its files or has failed
\* itself; only then does run end, and it ends in failure, returning no list
\* of paths
C18_FailureCancelsNoSibling ==
    /\ \A b \in Workers : wk[b].pc /= "cancelled"
    /\ (/\ phase \in {"DONE", "FAIL"}
        /\ \E b \in Workers : wk[b].pc = "failed")
       => /\ \A b \in Workers : wk[b].pc \in {"done", "failed"}
          /\ phase = "FAIL"

\* C19: when two or more buckets of a run fail with fatal errors, the error
\* that ParallelProductFetcher.run surfaces is the one that occurred first
\* among all buckets
C19_FirstFailureIsSurfaced ==
    (/\ phase = "FAIL"
     /\ Cardinality({b \in Workers : wk[b].pc = "failed"}) >= 2)
    => \E b \in Workers :
        /\ wk[b].failed_first
        /\ surfaced = wk[b].exc.kind

\* C20: every error that stops a run, raised while the locations are resolved
\* or while the files are fetched, ends the process with the exit code of its
\* kind (1 no profile, 2 missing setting, 3 to 5 locator service timeout,
\* redirects and error, 6 no locator, 7 file error, 8 to 10 NGAS timeout,
\* redirects and error, 11 size mismatch, 12 file exists); no error ends the
\* run without such a code
C20_EveryErrorHasItsExitCode ==
    phase = "FAIL"
    => \/ surfaced = "NoProfileException" /\ exit_code = 1
       \/ surfaced = "MissingSettingsException" /\ exit_code = 2
       \/ surfaced = "LocationServiceTimeoutException" /\ exit_code = 3
       \/ surfaced = "LocationServiceRedirectsException" /\ exit_code = 4
       \/ surfaced = "LocationServiceErrorException" /\ exit_code = 5
       \/ surfaced = "NoLocatorException" /\ exit_code = 6
       \/ surfaced = "FileErrorException" /\ exit_code = 7
       \/ surfaced = "NGASServiceTimeoutException" /\ exit_code = 8
       \/ surfaced = "NGASServiceRedirectsException" /\ exit_code = 9
       \/ surfaced = "NGASServiceErrorException" /\ exit_code = 10
       \/ surfaced = "SizeMismatchException" /\ exit_code = 11
       \/ surfaced = "FileExistsError" /\ exit_code = 12

\* C21: the orchestrator goes through INIT, RESOLVE, PLAN, FETCH, DONE in that
\* order only; no fetch of a file starts unless the locations were resolved;
\* DONE is entered only when the fetcher has put the buckets together with
\* success; FAIL is entered from the states that are not final only, and
\* after FAIL (or DONE) nothing changes any more
C21_PhasesInOrder ==
    [][/\ phase' /= phase =>
            <<phase, phase'>> \in
                {<<"INIT", "RESOLVE">>, <<"RESOLVE", "PLAN">>,
                 <<"PLAN", "FETCH">>, <<"FETCH", "DONE">>,
                 <<"INIT", "FAIL">>, <<"RESOLVE", "FAIL">>,
                 <<"PLAN", "FAIL">>, <<"FETCH", "FAIL">>}
       /\ phase \in {"DONE", "FAIL"} => vars' = vars
       /\ (log' /= log \/ files' /= files) =>
            /\ phase = "FETCH"
            /\ _capture_and_validate_input = "none"
            /\ _get_files_report.exc = "none"
            /\ files_report = _get_files_report.files
       /\ (phase' = "DONE" /\ phase /= "DONE") =>
            /\ \A b \in Workers : wk[b].pc = "done"
            /\ exit_code' = 0
            /\ surfaced' = "none"]_vars

\* the run failed while it planned the buckets, after the locations were
\* resolved and before any thread was started
C21_Witness ==
    /\ phase = "FAIL"
    /\ surfaced = "ZeroDivisionError"
    /\ files_report /= <<>>
    /\ wk = <<>>

\* the file at d is streamed, and every answer its storage server can give
\* carries a body of another length than the file spec declares
StreamsAnotherCount(d) ==
    /\ ~args.dry_run
    /\ MethodAt(d) = STREAM
    /\ \A r \in Responses(env.mode, STREAM, SpecAt(d)) :
        r.conn_ok /\ r.len /= SpecAt(d).size

\* the retrieval of the file at d has ended after at least one attempt
Attempted(d) ==
    /\ log[d].calls > 0
    /\ log[d].returned \/ log[d].raised /= NoErr

\* the retrieval of the file at d made MAX_TRIES attempts and failed with
\* SizeMismatch, and a run that stopped for no other failure has exit code 11
TenTriesThenSizeMismatch(d) ==
    /\ ~log[d].returned
    /\ log[d].raised.kind = "SizeMismatchException"
    /\ log[d].calls = MAX_TRIES
    /\ (/\ phase \in {"DONE", "FAIL"}
        /\ \A e \in Dests \ {d} : log[e].raised = NoErr)
       => phase = "FAIL" /\ exit_code = 11

\* C22 as stated: when the bytes a storage server streams for a file differ
\* in count from the declared size on every attempt, the stream retrieval of
\* the file is attempted exactly MAX_TRIES times and then fails with
\* SizeMismatch, which ends the run with exit code 11
C22_WrongCountEndsInSizeMismatch ==
    \A d \in Dests :
        Attempted(d) /\ StreamsAnotherCount(d) => TenTriesThenSizeMismatch(d)

\* C22, amended: the same, when the count of the bytes streamed is not zero
C22_WrongNonzeroCountEndsInSizeMismatch ==
    \A d \in Dests :
        (/\ Attempted(d)
         /\ StreamsAnotherCount(d)
         /\ \A r \in Responses(env.mode, STREAM, SpecAt(d)) : r.len /= 0)
        => TenTriesThenSizeMismatch(d)

\* a run ended with exit code 11 after ten attempts to stream a file from a
\* server that sends another, positive number of bytes each time
C22_Witness ==
    \E d \in Dests :
        /\ log[d].calls = MAX_TRIES
        /\ StreamsAnotherCount(d)
        /\ \A r \in Responses(env.mode, STREAM, SpecAt(d)) : r.len /= 0
        /\ log[d].raised.kind = "SizeMismatchException"
        /\ phase = "FAIL"
        /\ exit_code = 11

\* the file at d is copied, and its storage server answers every request
\* with a status that is not 200
CopyAlwaysRefused(d) ==
    /\ ~args.dry_run
    /\ MethodAt(d) = COPY
    /\ \A r \in Responses(env.mode, COPY, SpecAt(d)) :
        r.conn_ok /\ r.status /= HTTP_OK

\* C23: in copy mode, when the storage server answers every copy request
\* with a status that is not 200, each attempt raises NGASServiceError with
\* that status code, the file is attempted exactly MAX_TRIES times, and the
\* run ends with exit code 10
C23_RefusedCopyIsTriedTenTimes ==
    \A d \in Dests :
        (log[d].calls > 0 /\ CopyAlwaysRefused(d))
        => /\ \A b \in Workers :
                (wk[b].pc \notin {"pending", "cancelled", "done"}
                 /\ CurDest(b) = d)
                => wk[b].last = "NGASServiceErrorException"
           /\ log[d].status_code \in
                {r.status : r \in Responses(env.mode, COPY, SpecAt(d))}
           /\ log[d].calls <= MAX_TRIES
           /\ ~log[d].returned
           /\ log[d].raised /= NoErr
              => /\ log[d].raised.kind = "NGASServiceErrorException"
                 /\ log[d].calls = MAX_TRIES
           /\ (/\ phase \in {"DONE", "FAIL"}
               /\ \A e \in Dests \ {d} : log[e].raised = NoErr)
              => /\ phase = "FAIL"
                 /\ exit_code = 10
                 /\ log[d].calls = MAX_TRIES

\* a run ended with exit code 10 after ten copy requests for a file, each
\* answered with status 400
C23_Witness ==
    \E d \in Dests :
        /\ log[d].calls = MAX_TRIES
        /\ CopyAlwaysRefused(d)
        /\ log[d].requests = MAX_TRIES
        /\ log[d].status_code = HTTP_BAD_REQUEST
        /\ phase = "FAIL"
        /\ exit_code = 10

\* C24: in stream mode an attempt that the server answers with a status that
\* is not 200 fails with NGASServiceError, as in copy mode, whatever the
\* length of the body of the answer
C24_RefusedStreamIsServiceError ==
    \A b \in Workers :
        (/\ wk[b].pc \notin {"pending", "cancelled", "done"}
         /\ wk[b].tries > 0
         /\ ~args.dry_run
         /\ bucketized_files[b].retrieve_method = STREAM
         /\ \A r \in Responses(env.mode, STREAM, CurFile(b)) :
             r.conn_ok /\ r.status /= HTTP_OK)
        => wk[b].last = "NGASServiceErrorException"

\* the places of a thread inside _make_basedir
InMakeBasedir == {"basedir", "umask", "mkdir", "restore"}

\* C25: after every call of _make_basedir, on every exit path (the directory
\* was created, was there already, is not writable, or its creation failed
\* with FileError), the umask of the process is what it was before the call
\* (before the call changed it: the value os.umask(0o000) returned, if the
\* call came that far)
C25_UmaskRestoredOnEveryPath ==
    [][\A b \in Workers :
         (wk[b].pc \in InMakeBasedir /\ wk'[b].pc \notin InMakeBasedir)
         => umask' = IF wk[b].pc = "basedir" THEN umask ELSE wk[b].umask]_vars

\* the resolution of the locations has ended, one way or the other
Resolved == phase \notin {"INIT", "RESOLVE"} /\ surfaced /= "PermissionError"

\* neither a product locator that is not empty nor a location file is given
NeitherGiven ==
    /\ args.product_locator \in {Null, ""}
    /\ args.location_file \in {Null, ""}

\* the location service was asked (a product locator is given, and the
\* location file, if one is given too, was read), and it answered 404
LookupNotFound ==
    /\ settings.execution_site /= ""
    /\ args.product_locator /= Null
    /\ ~NeitherGiven
    /\ args.location_file /= Null => env.file = "ok"
    /\ env.service = HTTP_NOT_FOUND

\* the run ended with NoLocator and exit code 6, and no fetch was started
EndedWithNoLocator ==
    /\ phase = "FAIL"
    /\ surfaced = "NoLocatorException"
    /\ exit_code = 6
    /\ wk = <<>>
    /\ \A d \in Dests : log[d] = NoLog /\ files[d] = env.files0[d]

\* C26 as stated: the resolution of the locations fails with NoLocator, and
\* no fetch is started, whenever neither a product locator that is not empty
\* nor a location file is given, or the location service answers the lookup
\* with status 404; the run ends with exit code 6
C26_NoLocator ==
    (Resolved /\ (NeitherGiven \/ LookupNotFound)) => EndedWithNoLocator

\* C26, amended: the same, when the settings name an execution site
C26_NoLocatorWithExecutionSite ==
    (/\ Resolved
     /\ settings.execution_site /= ""
     /\ NeitherGiven \/ LookupNotFound)
    => EndedWithNoLocator

\* a run ended with NoLocator because the location service answered 404 to
\* the lookup of a product locator, after a good location file was read
C26_Witness ==
    /\ EndedWithNoLocator
    /\ LookupNotFound
    /\ args.location_file /= Null

\* the run ended while it resolved the locations, with the exception kind,
\* and no fetch was started
FailedResolving(kind) ==
    /\ phase = "FAIL"
    /\ surfaced = kind
    /\ files_report = <<>>
    /\ wk = <<>>
    /\ \A d \in Dests : log[d] = NoLog /\ files[d] = env.files0[d]

C28_NothingLeftAfterExhaustion ==
    \A d \in Dests :
        (/\ log[d].raised.kind \in
                {"SizeMismatchException", "NGASServiceErrorException"}
         /\ log[d].calls = MAX_TRIES)
        => ~files[d].exists

\* the bucket that holds the file whose destination is d
BucketOf(d) ==
    CHOOSE b \in DOMAIN bucketized_files :
        \E j \in DOMAIN bucketized_files[b].files :
            _get_destination(bucketized_files[b].files[j]) = d

\* C29: the list of paths of a successful parallel run is a concatenation of
\* whole outputs of buckets: the paths of any one bucket stand next to each
\* other in the list (the blocks in the order in which the buckets
\* completed)
C29_BucketOutputsAreContiguous ==
    phase = "DONE"
    => \A i, j \in DOMAIN retrieved :
        (i < j /\ BucketOf(retrieved[i]) = BucketOf(retrieved[j]))
        => \A k \in i..j : BucketOf(retrieved[k]) = BucketOf(retrieved[i])

\* the destination of the j-th file of bucket b
DestAt(b, j) == _get_destination(bucketized_files[b].files[j])

\* the retrieve of the file at d is under way
UnderWay(d) == log[d].entered /\ ~log[d].returned /\ log[d].raised = NoErr

\* C30: within a bucket the files are fetched one at a time, in the order of
\* the bucket's list: the fetch of the (k+1)-th file of the bucket does not
\* start before the retrieve of its k-th file has returned with success,
\* whatever the other buckets do meanwhile
C30_OneAtATimeInListOrder ==
    \A b \in DOMAIN bucketized_files :
        LET n == Len(bucketized_files[b].files)
        IN  /\ \A j \in 1..(n - 1) :
                (log[DestAt(b, j + 1)].entered
                 \/ log[DestAt(b, j + 1)].calls > 0)
                => /\ log[DestAt(b, j)].returned
                   /\ log[DestAt(b, j)].raised = NoErr
            /\ Cardinality({j \in 1..n : UnderWay(DestAt(b, j))}) <= 1

\* the second file of a bucket is being fetched, after the first, while the
\* file of another bucket is being fetched too
C30_Witness ==
    \E b, c \in DOMAIN bucketized_files :
        /\ b /= c
        /\ Len(bucketized_files[b].files) = 2
        /\ log[DestAt(b, 1)].returned
        /\ UnderWay(DestAt(b, 2))
        /\ log[DestAt(b, 2)].calls > 0
        /\ UnderWay(DestAt(c, 1))
        /\ log[DestAt(c, 1)].calls > 0

\* C31: a SizeMismatch that the check after the fetch finds (the size on disk
\* is not the declared one although the fetch primitive reported success, as
\* after a copy request answered 200) is retried: the fetch is attempted
\* again through the Retryer, MAX_TRIES times in all, before SizeMismatch is
\* surfaced
C31_PostcheckMismatchIsRetried ==
    \A d \in Dests :
        (/\ log[d].raised.kind = "SizeMismatchException"
         /\ log[d].raised.attempt = 0)
        => log[d].calls = MAX_TRIES


\* C32: FETCH is entered only with a plan that is not empty: a run whose
\* resolution yields no file (the SDM filter dropped every file of the
\* report, say) is never in FETCH, and never in DONE with nothing fetched
C32_FetchOnlyWithAPlan ==
    phase \in {"FETCH", "DONE"} => bucketized_files /= <<>>


\* C33: when both a product locator and a location file are given, the
\* location file takes precedence: the files report that resolution returns
\* lists the files read from the file, not those the location service gave
C33_LocationFileTakesPrecedence ==
    (/\ phase \in {"PLAN", "FETCH", "DONE"}
     /\ args.product_locator \notin {Null, ""}
     /\ args.location_file \notin {Null, ""}
     /\ ~args.sdm_only)
    => Ids(files_report) = Ids(env.file_files)


\* C34: provided that every HTTP request, file operation and sleep returns,
\* every run comes to an end in DONE or in FAIL
C34_EveryRunTerminates == <>(phase \in {"DONE", "FAIL"})

\* a run ended after one of its two threads had used up all MAX_TRIES
\* attempts at a file
C34_Witness ==
    /\ phase \in {"DONE", "FAIL"}
    /\ Cardinality(Workers) = 2
    /\ \A b \in Workers : wk[b].pc \in {"done", "failed"}
    /\ \E d \in Dests : log[d].calls = MAX_TRIES /\ log[d].sleeps = MAX_TRIES - 1


\* C35: under every interleaving of the threads that create directories, once
\* all threads have ended the umask of the process is what it was before the
\* run (no directory failed to be created: every thread that cleared the
\* umask wrote back the value it had read)
C35_UmaskAsBeforeTheRun ==
    (/\ phase = "FETCH"
     /\ Workers /= {}
     /\ \A b \in Workers : wk[b].pc \in {"done", "failed"}
     /\ \A d \in Dests : log[d].raised.kind /= "FileErrorException")
    => umask = UMASK0


\* the files after the j-th file of bucket b were never attempted: no call,
\* no request, nothing entered, the destination as it was before the run, and
\* its directory as it was unless the retrieve of another file made it
NothingAfter(b, j) ==
    \A i \in (j + 1)..Len(bucketized_files[b].files) :
        LET d == DestAt(b, i)
        IN  /\ log[d] = NoLog
            /\ files[d] = env.files0[d]
            /\ (\A e \in Dests : e.dir = d.dir => ~log[e].entered)
               => dirs[d.dir] = env.dirs0[d.dir]

\* the buckets that a thread of the pool has taken
Taken == {c \in Workers : wk[c].pc \notin {"pending", "cancelled"}}

\* bucket c ran as it runs alone: it is under way, or it ended for an
\* exception one of its own files raised, or it has fetched all its files
RanByItself(c) ==
    /\ wk[c].pc = "failed"
       => /\ wk[c].exc /= NoErr
          /\ log[DestAt(c, wk[c].k)].raised = wk[c].exc
    /\ wk[c].pc = "done"
       => \A i \in DOMAIN bucketized_files[c].files : log[DestAt(c, i)].returned
    /\ phase \in {"DONE", "FAIL"} => wk[c].pc \in {"done", "failed"}

C37_PreflightOnceAndRetryOverwrites ==
    \A d \in Dests :
        /\ log[d].raised.kind = "FileExistsError"
           => log[d].calls = 0 /\ log[d].raised.attempt = 0
        /\ (log[d].calls >= 2 /\ log[d].opened /\ MethodAt(d) = STREAM)
           => \E r \in Responses(env.mode, STREAM, SpecAt(d)) :
                  r.conn_ok /\ files[d] = File(r.len)

\* without force, a file whose destination was not there before the run has
\* been streamed a tenth time, after nine attempts that wrote bytes of a wrong
\* count to the destination
C37_Witness ==
    \E d \in Dests :
        /\ log[d].calls = MAX_TRIES
        /\ log[d].opened
        /\ MethodAt(d) = STREAM
        /\ ~args.force /\ ~args.dry_run
        /\ ~env.files0[d].exists
        /\ files[d].exists /\ files[d].size > 0
        /\ log[d].raised.kind = "SizeMismatchException"


\* C38: a stream attempt that writes no byte fails with FileErrorException,
\* which is not retried: exactly one attempt is made; this holds as well when
\* the declared size is 0, so that no file of length zero is ever returned
\* from a stream
C38_EmptyStreamFailsAtOnce ==
    \A d \in Dests :
        /\ (/\ log[d].calls >= 1
            /\ ~args.dry_run
            /\ MethodAt(d) = STREAM
            /\ \A r \in Responses(env.mode, STREAM, SpecAt(d)) :
                  r.conn_ok /\ r.len = 0)
           => /\ log[d].calls = 1
              /\ log[d].sleeps = 0
              /\ log[d].raised = Err("FileErrorException", 1)
              /\ ~log[d].returned
        /\ (/\ log[d].returned
            /\ ~args.dry_run
            /\ MethodAt(d) = STREAM)
           => SpecAt(d).size /= 0 /\ files[d].size /= 0

\* a file declared with size 0 was streamed from a healthy server, which
\* sent its zero bytes, and the run failed with FileErrorException after the
\* one attempt
C38_Witness ==
    \E d \in Dests :
        /\ log[d].calls = 1
        /\ MethodAt(d) = STREAM
        /\ SpecAt(d).size = 0
        /\ env.mode = "ok"
        /\ log[d].raised = Err("FileErrorException", 1)
        /\ files[d] = File(0)
        /\ phase = "FAIL"
        /\ surfaced = "FileErrorException"


\* C39: every file is fetched with the retrieve method it was annotated
\* with: the retrieve_method of a bucket is the annotated
\* server.retrieve_method of every file in the bucket, also when files listed
\* under one server host carry different locations or clusters
C39_BucketMethodIsTheAnnotatedOne ==
    phase \in {"FETCH", "DONE", "FAIL"} =>
        \A b \in DOMAIN bucketized_files :
            \A j \in DOMAIN bucketized_files[b].files :
                \A i \in DOMAIN files_report :
                    files_report[i].ngas_file_id
                        = bucketized_files[b].files[j].ngas_file_id
                    => bucketized_files[b].retrieve_method
                           = files_report[i].server.retrieve_method


\* C40: when the wrapped function returns a false value and does not raise,
\* Retryer.retry takes the attempt for a failed one: while attempts remain it
\* sleeps and tries again, and after the max_tries-th attempt it raises
\* NGASServiceErrorException
C40_FalseResultIsAFailedAttempt ==
    \A r \in DOMAIN wk :
        wk[r].last = "False"
        => IF wk[r].num_tries < env.max_tries
           THEN wk[r].pc \in {"sleep", "loop"} /\ wk[r].exc = NoErr
           ELSE /\ wk[r].pc = "raised"
                /\ wk[r].exc.kind = "NGASServiceErrorException"

====
